---- MODULE Spec2Model ----
(***************************************************************************)
(* Model of dashplug.py: the CSV ingestion and cleaning pipeline           *)
(* (load_and_preprocess_data / clean_numeric), the KPI computation         *)
(* (calculate_kpis), the Pearson annotation (plot_correlation) and the     *)
(* control flow of one Streamlit script execution (main, __main__).        *)
(*                                                                         *)
(* Text is a sequence of one-character strings, so that str.replace,       *)
(* astype(str) and the numeric parsers are modelled by what they do to     *)
(* the characters.  A number is a decimal  m * 10^-e  kept normalised      *)
(* (no trailing zero in the fraction), or NaN.                             *)
(***************************************************************************)
EXTENDS Integers, Sequences, FiniteSets, TLC

(***************************************************************************)
(* Bounds of the model                                                     *)
(***************************************************************************)
MaxRows == 2

(***************************************************************************)
(* Characters and numbers                                                  *)
(***************************************************************************)
Digits == {"0", "1", "2", "3", "4", "5", "6", "7", "8", "9"}

DigitChars == <<"0", "1", "2", "3", "4", "5", "6", "7", "8", "9">>

DigitVal(c) == CHOOSE d \in 0..9 : DigitChars[d + 1] = c

NaN == [k |-> "nan", m |-> 0, e |-> 0]

RECURSIVE Normalize(_, _)
Normalize(m, e) ==
    IF e > 0 /\ m % 10 = 0 THEN Normalize(m \div 10, e - 1)
    ELSE [k |-> "num", m |-> m, e |-> e]

RECURSIVE Pow10(_)
Pow10(e) == IF e = 0 THEN 1 ELSE 10 * Pow10(e - 1)

Abs(n) == IF n < 0 THEN -n ELSE n

IsNum(v) == v.k = "num"

(***************************************************************************)
(* Text helpers                                                            *)
(***************************************************************************)
RECURSIVE LStrip(_)
LStrip(s) == IF s # <<>> /\ Head(s) = " " THEN LStrip(Tail(s)) ELSE s

RECURSIVE RStrip(_)
RStrip(s) ==
    IF s # <<>> /\ s[Len(s)] = " " THEN RStrip(SubSeq(s, 1, Len(s) - 1)) ELSE s

RECURSIVE DigitsValue(_)
DigitsValue(ds) ==
    IF ds = <<>> THEN 0
    ELSE 10 * DigitsValue(SubSeq(ds, 1, Len(ds) - 1)) + DigitVal(ds[Len(ds)])

RECURSIVE NatStr(_)
NatStr(n) ==
    IF n < 10 THEN <<DigitChars[n + 1]>>
    ELSE NatStr(n \div 10) \o <<DigitChars[(n % 10) + 1]>>

RECURSIVE Zeros(_)
Zeros(n) == IF n <= 0 THEN <<>> ELSE <<"0">> \o Zeros(n - 1)

\* str.replace(old, new, regex=False): every non-overlapping occurrence of the
\* literal old, scanning from the left.
RECURSIVE StrReplace(_, _, _)
StrReplace(s, old, new) ==
    IF Len(s) < Len(old) THEN s
    ELSE IF SubSeq(s, 1, Len(old)) = old
         THEN new \o StrReplace(SubSeq(s, Len(old) + 1, Len(s)), old, new)
         ELSE <<Head(s)>> \o StrReplace(Tail(s), old, new)

(***************************************************************************)
(* Numeric parsing of one piece of text (the float/int tokenizer used by   *)
(* both read_csv's type inference and pd.to_numeric): surrounding blanks   *)
(* are skipped, an optional sign, digits with at most one decimal point.   *)
(***************************************************************************)
Unsigned(s) == IF s # <<>> /\ Head(s) \in {"-", "+"} THEN Tail(s) ELSE s

IsDecimalText(b) ==
    /\ \A i \in 1..Len(b) : b[i] \in Digits \cup {"."}
    /\ Cardinality({i \in 1..Len(b) : b[i] = "."}) <= 1
    /\ \E i \in 1..Len(b) : b[i] \in Digits

FractionLen(b) ==
    IF \E i \in 1..Len(b) : b[i] = "."
    THEN Len(b) - (CHOOSE i \in 1..Len(b) : b[i] = ".")
    ELSE 0

ParseNumber(text) ==
    LET s == RStrip(LStrip(text))
        b == Unsigned(s)
        mag == DigitsValue(SelectSeq(b, LAMBDA c : c \in Digits))
    IN  IF ~IsDecimalText(b) THEN NaN
        ELSE Normalize(IF s # <<>> /\ Head(s) = "-" THEN -mag ELSE mag, FractionLen(b))

IsIntLiteral(text) ==
    LET b == Unsigned(RStrip(LStrip(text)))
    IN  b # <<>> /\ \A i \in 1..Len(b) : b[i] \in Digits

\* repr of a float64 / int64 value, as astype(str) writes it
FloatRepr(v) ==
    IF ~IsNum(v) THEN <<"n", "a", "n">>
    ELSE LET ds == NatStr(Abs(v.m))
             padded == Zeros(v.e + 1 - Len(ds)) \o ds
             ip == SubSeq(padded, 1, Len(padded) - v.e)
             fp == SubSeq(padded, Len(padded) - v.e + 1, Len(padded))
         IN  (IF v.m < 0 THEN <<"-">> ELSE <<>>) \o ip \o <<".">>
             \o (IF fp = <<>> THEN <<"0">> ELSE fp)

IntRepr(v) == (IF v.m < 0 THEN <<"-">> ELSE <<>>) \o NatStr(Abs(v.m))

(***************************************************************************)
(* Input: rows of comma-separated fields.  A row keeps its field count n   *)
(* and the text of its fields at the three target positions; a target      *)
(* position at or beyond n does not exist in that row.                     *)
(***************************************************************************)
Row(n, c2, c21, c23) == [n |-> n, c2 |-> c2, c21 |-> c21, c23 |-> c23]

\* col_map: zero-based positions of the three columns of interest
col_map == <<2, 21, 23>>

FieldAt(row, index) ==
    IF index >= row.n THEN <<>>          \* padded by the tokenizer: missing
    ELSE IF index = col_map[1] THEN row.c2
    ELSE IF index = col_map[2] THEN row.c21
    ELSE row.c23

(***************************************************************************)
(* pd.read_csv(uploaded_file, header=None, sep=',')                        *)
(*   - no data at all: EmptyDataError                                      *)
(*   - the first row fixes the number of columns; a later row with more    *)
(*     fields: ParserError; a later row with fewer is padded with missing  *)
(*   - each column is typed as a whole: int64 when every field is an       *)
(*     integer literal, float64 when every field is numeric or empty,      *)
(*     object (the original text) otherwise                                *)
(***************************************************************************)
ColumnDtype(fields) ==
    IF \A i \in 1..Len(fields) : IsIntLiteral(fields[i]) THEN "int64"
    ELSE IF \A i \in 1..Len(fields) :
                fields[i] = <<>> \/ IsNum(ParseNumber(fields[i])) THEN "float64"
    ELSE "object"

ReadColumn(input, index) ==
    LET fields == [i \in 1..Len(input) |-> FieldAt(input[i], index)]
        dtype == ColumnDtype(fields)
    IN  [dtype |-> dtype,
         vals |-> [i \in 1..Len(input) |->
                     IF dtype = "object"
                     THEN [na |-> fields[i] = <<>>, s |-> fields[i], v |-> NaN]
                     ELSE [na |-> fields[i] = <<>>, s |-> <<>>,
                           v |-> ParseNumber(fields[i])]]]

\* variant: an input without data read as a frame without columns
read_csv_NoEmptyDataError(input) ==
    IF input = <<>> THEN [ok |-> TRUE, ncols |-> 0]
    ELSE IF \E i \in 2..Len(input) : input[i].n > input[1].n
         THEN [ok |-> FALSE, ncols |-> 0]
    ELSE [ok |-> TRUE, ncols |-> input[1].n]

read_csv(input) ==
    IF input = <<>> THEN [ok |-> FALSE, ncols |-> 0]
    ELSE IF \E i \in 2..Len(input) : input[i].n > input[1].n
         THEN [ok |-> FALSE, ncols |-> 0]
    ELSE [ok |-> TRUE, ncols |-> input[1].n]

(***************************************************************************)
(* clean_numeric and pd.to_numeric(errors='coerce')                        *)
(***************************************************************************)
AsTypeStr(cell, dtype) ==
    IF dtype = "int64" THEN IntRepr(cell.v)
    ELSE IF dtype = "float64" THEN FloatRepr(cell.v)
    ELSE IF cell.na THEN <<"n", "a", "n">> ELSE cell.s

CleanText(text) ==
    StrReplace(StrReplace(StrReplace(text, <<"R", "$">>, <<>>), <<".">>, <<>>),
               <<",">>, <<".">>)

clean_numeric(series) ==
    [i \in 1..Len(series.vals) |->
        ParseNumber(CleanText(AsTypeStr(series.vals[i], series.dtype)))]

to_numeric(series) ==
    [i \in 1..Len(series.vals) |->
        IF series.dtype = "object"
        THEN (IF series.vals[i].na THEN NaN ELSE ParseNumber(series.vals[i].s))
        ELSE series.vals[i].v]

\* variant: the count columns left as parsed
AsTypeInt_NoCoercion(v) == v

\* astype(int): truncation toward zero
AsTypeInt(v) ==
    LET q == Abs(v.m) \div Pow10(v.e)
    IN  [k |-> "num", m |-> IF v.m < 0 THEN -q ELSE q, e |-> 0]

(***************************************************************************)
(* load_and_preprocess_data                                                 *)
(* Result: none = TRUE models `return None` (after st.error); otherwise    *)
(* rows is the DataFrame, each record keeping its index label (the         *)
(* zero-based position of the row in the input).                           *)
(***************************************************************************)
NoTable(err) == [none |-> TRUE, err |-> err, rows |-> <<>>]

\* variant: column check off by one
MissingColumns_OffByOne(ncols) == {j \in 1..Len(col_map) : col_map[j] > ncols}

MissingColumns(ncols) == {j \in 1..Len(col_map) : col_map[j] >= ncols}

\* variant: only a missing spend drops the row
dropna_SpendOnly(frame) == SelectSeq(frame, LAMBDA r : IsNum(r.Gasto_Trafego))

dropna(frame) == SelectSeq(frame, LAMBDA r :
    IsNum(r.Gasto_Trafego) /\ IsNum(r.Total_Atendimentos) /\ IsNum(r.Numero_Vendas))

load_and_preprocess_data(input) ==
    LET csv == read_csv(input)
    IN  IF ~csv.ok THEN NoTable("read_error")
        ELSE IF MissingColumns(csv.ncols) # {}
        THEN NoTable("missing_column")
        ELSE LET gasto == clean_numeric(ReadColumn(input, col_map[1]))
                 atend == to_numeric(ReadColumn(input, col_map[2]))
                 vendas == to_numeric(ReadColumn(input, col_map[3]))
                 frame == [i \in 1..Len(input) |->
                             [index |-> i - 1,
                              Gasto_Trafego |-> gasto[i],
                              Total_Atendimentos |-> atend[i],
                              Numero_Vendas |-> vendas[i]]]
                 kept == dropna(frame)
             IN  [none |-> FALSE, err |-> "",
                  rows |-> [i \in 1..Len(kept) |->
                     [index |-> kept[i].index,
                      Gasto_Trafego |-> kept[i].Gasto_Trafego,
                      Total_Atendimentos |-> AsTypeInt(kept[i].Total_Atendimentos),
                      Numero_Vendas |-> AsTypeInt(kept[i].Numero_Vendas)]]]

(***************************************************************************)
(* calculate_kpis.  A ratio is the fraction n/d (d > 0), or the inf / nan  *)
(* that a numpy division by zero produces.                                 *)
(***************************************************************************)
Max(a, b) == IF a >= b THEN a ELSE b

Add(a, b) ==
    LET e == Max(a.e, b.e)
    IN  Normalize(a.m * Pow10(e - a.e) + b.m * Pow10(e - b.e), e)

RECURSIVE SumColumn(_, _)
SumColumn(rows, col) ==
    IF rows = <<>> THEN [k |-> "num", m |-> 0, e |-> 0]
    ELSE Add(SumColumn(SubSeq(rows, 1, Len(rows) - 1), col), rows[Len(rows)][col])

ZeroRatio == [k |-> "num", n |-> 0, d |-> 1]

\* a / b * scale for a decimal a and an integer b
Divide(a, b, scale) ==
    IF b.m = 0 THEN [k |-> IF a.m = 0 THEN "nan" ELSE "inf", n |-> 0, d |-> 0]
    ELSE IF b.m > 0 THEN [k |-> "num", n |-> a.m * scale, d |-> b.m * Pow10(a.e)]
    ELSE [k |-> "num", n |-> (-a.m) * scale, d |-> (-b.m) * Pow10(a.e)]

\* variant: the guard lets a zero denominator through
GuardedRatio_NonStrict(num, den, scale) ==
    IF den.m >= 0 THEN Divide(num, den, scale) ELSE ZeroRatio

GuardedRatio(num, den, scale) ==
    IF den.m > 0 THEN Divide(num, den, scale) ELSE ZeroRatio

calculate_kpis(rows) ==
    LET total_traffic_cost == SumColumn(rows, "Gasto_Trafego")
        total_leads == SumColumn(rows, "Total_Atendimentos")
        total_sales == SumColumn(rows, "Numero_Vendas")
    IN  [Gasto_Total |-> total_traffic_cost,
         Total_Atendimentos |-> total_leads,
         Total_Vendas |-> total_sales,
         Custo_por_Atendimento |-> GuardedRatio(total_traffic_cost, total_leads, 1),
         Taxa_de_Conversao |-> GuardedRatio(total_sales, total_leads, 100),
         Custo_por_Aquisicao |-> GuardedRatio(total_traffic_cost, total_sales, 1)]

(***************************************************************************)
(* plot_correlation: Series.corr (Pearson).  With n observations,          *)
(*   r = Sxy / sqrt(Sxx * Syy),  Sxy = n*Sum(xy) - Sum(x)*Sum(y), ...      *)
(* and the result is NaN when n < 2 or a variance is 0.  The value is      *)
(* written into the st.info text with the format .2f whatever it is.       *)
(***************************************************************************)
RECURSIVE SumProd(_, _, _)
SumProd(rows, a, b) ==
    IF rows = <<>> THEN 0
    ELSE SumProd(Tail(rows), a, b) + rows[1][a].m * rows[1][b].m

Pearson(rows) ==
    LET n == Len(rows)
        x == "Total_Atendimentos"
        y == "Numero_Vendas"
        sx == SumColumn(rows, x).m
        sy == SumColumn(rows, y).m
        sxx == n * SumProd(rows, x, x) - sx * sx
        syy == n * SumProd(rows, y, y) - sy * sy
        sxy == n * SumProd(rows, x, y) - sx * sy
    IN  IF n < 2 \/ sxx = 0 \/ syy = 0
        THEN [k |-> "nan", sxy |-> 0, sxx |-> 0, syy |-> 0]
        ELSE [k |-> "num", sxy |-> sxy, sxx |-> sxx, syy |-> syy]

\* the UI elements plot_correlation emits, in order
plot_correlation(rows) ==
    [correlation |-> Pearson(rows),
     ui |-> <<"correlation_info", "correlation_chart">>]

(***************************************************************************)
(* Inputs of the model                                                     *)
(***************************************************************************)
T_currency == <<"R", "$", " ", "1", ".", "2", "3", "4", ",", "5", "6">>
T_10_00 == <<"1", "0", ".", "0", "0">>
T_1_500 == <<"1", ".", "5", "0", "0">>
T_abc == <<"a", "b", "c">>

SpendFields == {T_currency, T_10_00, T_1_500, T_abc}
ContactFields == {<<"5">>, <<"0">>, <<"x">>}
SaleFields == {<<"2">>, <<"0">>, <<"-", "3", ".", "5">>}

ShortRow == Row(23, T_10_00, <<"5">>, <<>>)
LongRow == Row(25, T_10_00, <<"5">>, <<"2">>)

Rows == {Row(24, s, c, v) : s \in SpendFields, c \in ContactFields, v \in SaleFields}
            \cup {ShortRow, LongRow}

Inputs == UNION {[1..n -> Rows] : n \in 0..MaxRows}

File(data) == [present |-> TRUE, data |-> data]
NoFile == [present |-> FALSE, data |-> <<>>]

\* files a user uploads / the content of the fixed path, in the script-run model
SampleFiles ==
    { <<Row(24, T_10_00, <<"5">>, <<"2">>)>>,
      <<Row(24, T_currency, <<"5">>, <<"2">>), Row(24, T_1_500, <<"0">>, <<"0">>)>>,
      <<Row(24, T_currency, <<"5">>, <<"2">>), Row(24, T_10_00, <<"0">>, <<"2">>)>>,
      <<Row(24, T_abc, <<"x">>, <<"2">>)>>,
      <<ShortRow>>,
      <<>> }

(***************************************************************************)
(* State                                                                   *)
(***************************************************************************)
VARIABLES
    uploaded_file,  \* value of the file_uploader widget
    disk_file,      \* content of /home/ubuntu/upload/dadospreenchidos.txt
    test_mode,      \* st.session_state['test_mode']
    pc,             \* position in the script execution
    source,         \* what was handed to load_and_preprocess_data
    df,             \* its result
    kpis,           \* result of calculate_kpis
    correlation,    \* value written by plot_correlation
    ui              \* UI elements emitted in this execution, in order

vars == <<uploaded_file, disk_file, test_mode, pc, source, df, kpis, correlation, ui>>

NoDf == [none |-> TRUE, err |-> "not_loaded", rows |-> <<>>]
NoKpis == [computed |-> FALSE, v |-> calculate_kpis(<<>>)]
NoCorrelation == [k |-> "none", sxy |-> 0, sxx |-> 0, syy |-> 0]

(***************************************************************************)
(* One script execution (Streamlit reruns the script from the top on every *)
(* interaction).  __main__ sets the session flag, runs main, clears it.    *)
(***************************************************************************)
Init ==
    /\ uploaded_file \in {NoFile} \cup {File(f) : f \in SampleFiles}
    /\ disk_file \in {NoFile} \cup {File(f) : f \in SampleFiles}
    /\ test_mode = FALSE
    /\ pc = "idle"
    /\ source = NoFile
    /\ df = NoDf
    /\ kpis = NoKpis
    /\ correlation = NoCorrelation
    /\ ui = <<>>

\* the user puts another file in the uploader (or clears it) between executions
UserUpload ==
    /\ pc = "idle"
    /\ \E f \in {NoFile} \cup {File(d) : d \in SampleFiles} :
          /\ f # uploaded_file
          /\ uploaded_file' = f
    /\ UNCHANGED <<disk_file, test_mode, pc, source, df, kpis, correlation, ui>>

\* __main__: st.session_state['test_mode'] = True, then main() starts
ScriptStart ==
    /\ pc = "idle"
    /\ test_mode' = TRUE
    /\ pc' = "main"
    /\ source' = NoFile
    /\ df' = NoDf
    /\ kpis' = NoKpis
    /\ correlation' = NoCorrelation
    /\ ui' = <<>>
    /\ UNCHANGED <<uploaded_file, disk_file>>

\* main, uploaded_file is None: the 'no file provided' message
MainNoFile ==
    /\ pc = "main"
    /\ ~uploaded_file.present
    /\ ui' = Append(ui, "info_no_file")
    /\ pc' = "end"
    /\ UNCHANGED <<uploaded_file, disk_file, test_mode, source, df, kpis, correlation>>

\* the input main hands to load_and_preprocess_data
IngestedInput == IF test_mode THEN disk_file ELSE uploaded_file

\* main, a file is uploaded, test_mode set and the fixed path cannot be opened:
\* open() raises, the execution stops there and the flag is never cleared
MainOpenFails ==
    /\ pc = "main"
    /\ uploaded_file.present
    /\ ~IngestedInput.present
    /\ ui' = Append(ui, "exception")
    /\ pc' = "idle"
    /\ UNCHANGED <<uploaded_file, disk_file, test_mode, source, df, kpis, correlation>>

\* main, a file is uploaded: choose the input and load it
MainLoad ==
    /\ pc = "main"
    /\ uploaded_file.present
    /\ IngestedInput.present
    /\ source' = IngestedInput
    /\ df' = load_and_preprocess_data(IngestedInput.data)
    /\ ui' = IF df'.none THEN Append(ui, "error") ELSE ui
    /\ pc' = "loaded"
    /\ UNCHANGED <<uploaded_file, disk_file, test_mode, kpis, correlation>>

\* variant: the emptiness test left out of the first branch
MainKpis_NoEmptyTest ==
    /\ pc = "loaded"
    /\ ~df.none
    /\ kpis' = [computed |-> TRUE, v |-> calculate_kpis(df.rows)]
    /\ ui' = ui \o <<"success", "kpis">>
    /\ pc' = "correlation"
    /\ UNCHANGED <<uploaded_file, disk_file, test_mode, source, df, correlation>>

\* df is not None and not df.empty: success message and the six metrics
MainKpis ==
    /\ pc = "loaded"
    /\ ~df.none /\ df.rows # <<>>
    /\ kpis' = [computed |-> TRUE, v |-> calculate_kpis(df.rows)]
    /\ ui' = ui \o <<"success", "kpis">>
    /\ pc' = "correlation"
    /\ UNCHANGED <<uploaded_file, disk_file, test_mode, source, df, correlation>>

MainPlotCorrelation ==
    /\ pc = "correlation"
    /\ correlation' = plot_correlation(df.rows).correlation
    /\ ui' = ui \o plot_correlation(df.rows).ui
    /\ pc' = "traffic"
    /\ UNCHANGED <<uploaded_file, disk_file, test_mode, source, df, kpis>>

MainPlotTraffic ==
    /\ pc = "traffic"
    /\ ui' = Append(ui, "traffic_chart")
    /\ pc' = "end"
    /\ UNCHANGED <<uploaded_file, disk_file, test_mode, source, df, kpis, correlation>>

\* df is not None and df.empty: the warning
MainEmpty ==
    /\ pc = "loaded"
    /\ ~df.none /\ df.rows = <<>>
    /\ ui' = Append(ui, "warning_empty")
    /\ pc' = "end"
    /\ UNCHANGED <<uploaded_file, disk_file, test_mode, source, df, kpis, correlation>>

\* df is None: neither branch runs
MainLoadFailed ==
    /\ pc = "loaded"
    /\ df.none
    /\ pc' = "end"
    /\ UNCHANGED <<uploaded_file, disk_file, test_mode, source, df, kpis, correlation, ui>>

\* __main__: st.session_state['test_mode'] = False after main returned
ScriptEnd ==
    /\ pc = "end"
    /\ test_mode' = FALSE
    /\ pc' = "idle"
    /\ UNCHANGED <<uploaded_file, disk_file, source, df, kpis, correlation, ui>>

Next ==
    \/ UserUpload
    \/ ScriptStart
    \/ MainNoFile
    \/ MainOpenFails
    \/ MainLoad
    \/ MainKpis
    \/ MainPlotCorrelation
    \/ MainPlotTraffic
    \/ MainEmpty
    \/ MainLoadFailed
    \/ ScriptEnd

Spec == Init /\ [][Next]_vars

(***************************************************************************)
(* The pipeline functions applied to every bounded input: the functions    *)
(* are pure, so each is one step on the result of the previous one.        *)
(***************************************************************************)
PipelineInit ==
    /\ uploaded_file = NoFile
    /\ disk_file = NoFile
    /\ test_mode = FALSE
    /\ pc = "input"
    /\ source \in {File(i) : i \in Inputs}
    /\ df = NoDf
    /\ kpis = NoKpis
    /\ correlation = NoCorrelation
    /\ ui = <<>>

Load ==
    /\ pc = "input"
    /\ df' = load_and_preprocess_data(source.data)
    /\ ui' = IF df'.none THEN Append(ui, "error") ELSE ui
    /\ pc' = "loaded"
    /\ UNCHANGED <<uploaded_file, disk_file, test_mode, source, kpis, correlation>>

CalculateKpis ==
    /\ pc = "loaded"
    /\ ~df.none
    /\ kpis' = [computed |-> TRUE, v |-> calculate_kpis(df.rows)]
    /\ pc' = "kpis"
    /\ UNCHANGED <<uploaded_file, disk_file, test_mode, source, df, correlation, ui>>

PlotCorrelation ==
    /\ pc = "kpis"
    /\ correlation' = plot_correlation(df.rows).correlation
    /\ ui' = ui \o plot_correlation(df.rows).ui
    /\ pc' = "done"
    /\ UNCHANGED <<uploaded_file, disk_file, test_mode, source, df, kpis>>

PipelineNext == Load \/ CalculateKpis \/ PlotCorrelation

PipelineSpec == PipelineInit /\ [][PipelineNext]_vars

(***************************************************************************)
(* Vocabulary of the properties                                            *)
(***************************************************************************)
\* fewest fields a row needs to have all three target positions
MinFields == col_map[3] + 1

Loaded == pc \in {"loaded", "kpis", "done"}

ShortRowIn(input) == \E i \in 1..Len(input) : input[i].n < MinFields

AllRowsWide(input) == \A i \in 1..Len(input) : input[i].n >= MinFields

\* a target field parses: the spend after the textual cleaning, a count as written
SpendParses(text) == IsNum(ParseNumber(CleanText(text)))

CountParses(text) == IsNum(ParseNumber(text))

RowParses(row) ==
    /\ SpendParses(FieldAt(row, col_map[1]))
    /\ CountParses(FieldAt(row, col_map[2]))
    /\ CountParses(FieldAt(row, col_map[3]))

\* positions (zero-based, ascending) of the input rows whose target fields parse
ParsingRows(input) ==
    SelectSeq([i \in 1..Len(input) |-> i - 1], LAMBDA j : RowParses(input[j + 1]))

IndexLabels(rows) == [i \in 1..Len(rows) |-> rows[i].index]

Dec(m, e) == [k |-> "num", m |-> m, e |-> e]

RatioIs(r, p, q) == r.k = "num" /\ r.n * q = p * r.d

Emitted(what) == \E i \in 1..Len(ui) : ui[i] = what

Position(what) == CHOOSE i \in 1..Len(ui) : ui[i] = what

(***************************************************************************)
(* C1                                                                      *)
(***************************************************************************)
\* C1 (as stated): whenever any row of the input has fewer than 24 fields, the
\* load fails: no table is returned and no row is processed, wherever that row
\* is and whatever the other rows are.
C1_AnyShortRowFails ==
    (Loaded /\ ShortRowIn(source.data)) => (df.none /\ df.rows = <<>>)

\* C1 (amended): whenever the FIRST row has fewer than 24 fields the load fails
\* with an error and no table, whatever the other rows are; a row with fewer
\* than 24 fields after a first row with at least 24 does not fail the load
\* (unless another row is longer than the first): it is padded with missing
\* values and left out of the returned table.
C1_FirstShortRowFails ==
    /\ (Loaded /\ source.data # <<>> /\ source.data[1].n < MinFields)
          => (df.none /\ df.rows = <<>> /\ Emitted("error"))
    /\ (Loaded /\ source.data # <<>> /\ source.data[1].n >= MinFields
              /\ \A i \in 1..Len(source.data) : source.data[i].n <= source.data[1].n)
          => (/\ ~df.none
              /\ \A i \in 1..Len(df.rows) :
                    source.data[df.rows[i].index + 1].n >= MinFields)

C1_Witness ==
    /\ Loaded /\ Len(source.data) = 2
    /\ source.data[1].n < MinFields
    /\ source.data[2].n >= MinFields /\ RowParses(source.data[2])
    /\ df.none

C3_ZeroDenominatorGivesZero ==
    kpis.computed =>
        /\ SumColumn(df.rows, "Total_Atendimentos").m = 0
              => (kpis.v.Custo_por_Atendimento = ZeroRatio
                  /\ kpis.v.Taxa_de_Conversao = ZeroRatio)
        /\ SumColumn(df.rows, "Numero_Vendas").m = 0
              => kpis.v.Custo_por_Aquisicao = ZeroRatio

C3_Witness ==
    /\ kpis.computed /\ df.rows # <<>>
    /\ kpis.v.Total_Atendimentos.m = 0
    /\ kpis.v.Total_Vendas.m # 0
    /\ kpis.v.Gasto_Total.m # 0

(***************************************************************************)
(* C4                                                                      *)
(***************************************************************************)
\* the number a spend field written in the documented currency format denotes
WellFormedCurrency == {T_currency, T_1_500}

CurrencyValue(text) == IF text = T_currency THEN Dec(123456, 2) ELSE Dec(1500, 0)

\* C4: a spend field in the documented currency format ('.' thousands
\* separator, ',' decimal separator, optional R$) is normalized to the number
\* it denotes, and integer count fields to the integers written.
C4_CurrencyRoundTrip ==
    (Loaded /\ ~df.none) =>
        \A i \in 1..Len(df.rows) :
            LET row == source.data[df.rows[i].index + 1]
            IN  /\ row.c2 \in WellFormedCurrency
                      => df.rows[i].Gasto_Trafego = CurrencyValue(row.c2)
                /\ IsIntLiteral(row.c21)
                      => df.rows[i].Total_Atendimentos = ParseNumber(row.c21)
                /\ IsIntLiteral(row.c23)
                      => df.rows[i].Numero_Vendas = ParseNumber(row.c23)

(***************************************************************************)
(* C5                                                                      *)
(***************************************************************************)
\* C5: the single row with 10.00 at index 2, 5 at index 21 and 2 at index 23
\* normalizes to (10.00, 5, 2) and its KPIs are 10.00, 5, 2, 2.0, 40.0, 5.0.
C5_SingleRowScenario ==
    (pc = "kpis" /\ source.data = <<Row(24, T_10_00, <<"5">>, <<"2">>)>>) =>
        /\ Len(df.rows) = 1
        /\ df.rows[1].Gasto_Trafego = Dec(10, 0)
        /\ df.rows[1].Total_Atendimentos = Dec(5, 0)
        /\ df.rows[1].Numero_Vendas = Dec(2, 0)
        /\ kpis.v.Gasto_Total = Dec(10, 0)
        /\ kpis.v.Total_Atendimentos = Dec(5, 0)
        /\ kpis.v.Total_Vendas = Dec(2, 0)
        /\ RatioIs(kpis.v.Custo_por_Atendimento, 2, 1)
        /\ RatioIs(kpis.v.Taxa_de_Conversao, 40, 1)
        /\ RatioIs(kpis.v.Custo_por_Aquisicao, 5, 1)

(***************************************************************************)
(* C6                                                                      *)
(***************************************************************************)
AllZero(v) ==
    /\ v.Gasto_Total.m = 0 /\ v.Total_Atendimentos.m = 0 /\ v.Total_Vendas.m = 0
    /\ v.Custo_por_Atendimento = ZeroRatio
    /\ v.Taxa_de_Conversao = ZeroRatio
    /\ v.Custo_por_Aquisicao = ZeroRatio

\* C6 (as stated): empty input gives an empty table, not an error outcome, and
\* the KPIs of it are all 0.
C6_EmptyInputGivesEmptyTable ==
    (Loaded /\ source.data = <<>>)
        => (~df.none /\ df.rows = <<>> /\ ~Emitted("error")
            /\ (kpis.computed => AllZero(kpis.v)))

\* C6 (amended): empty input is a read failure: the error is shown and no table
\* is returned (so no KPIs are computed from it); the KPIs computed from an
\* empty table (every row dropped) have all three sums and all three ratios 0.
C6_EmptyInputIsReadError ==
    /\ (Loaded /\ source.data = <<>>)
          => (df.none /\ df.err = "read_error" /\ Emitted("error") /\ ~kpis.computed)
    /\ (kpis.computed /\ df.rows = <<>>) => AllZero(kpis.v)

C6_Witness == pc = "loaded" /\ source.data = <<>> /\ df.none

(***************************************************************************)
(* C7                                                                      *)
(***************************************************************************)
ConstantColumn(rows, col) ==
    \A i, j \in 1..Len(rows) : rows[i][col] = rows[j][col]

CorrelationUndefined(rows) ==
    \/ Len(rows) < 2
    \/ ConstantColumn(rows, "Total_Atendimentos")
    \/ ConstantColumn(rows, "Numero_Vendas")

\* C7: when the table has fewer than 2 records or a constant count column, the
\* correlation is surfaced as a distinct 'undefined' outcome: no coefficient
\* text is shown and no NaN is handed to the display.
C7_UndefinedCorrelationSurfaced ==
    (correlation.k # "none" /\ CorrelationUndefined(df.rows))
        => (correlation.k = "undefined" /\ ~Emitted("correlation_info"))

(***************************************************************************)
(* C8                                                                      *)
(***************************************************************************)
\* the integer t is the number c with its fraction cut off (toward zero)
TruncationOf(t, c) ==
    /\ IsNum(c) /\ IsNum(t) /\ t.e = 0
    /\ Abs(t.m) * Pow10(c.e) <= Abs(c.m)
    /\ Abs(c.m) < (Abs(t.m) + 1) * Pow10(c.e)
    /\ (t.m # 0) => ((t.m < 0) = (c.m < 0))

\* C8 (as stated): every record returned has a non-negative spend and
\* non-negative integer counts, and a row whose count is negative or not a
\* whole number never becomes a record.
C8_RecordsNonNegativeWhole ==
    (Loaded /\ ~df.none) =>
        \A i \in 1..Len(df.rows) :
            LET r == df.rows[i]
                row == source.data[r.index + 1]
            IN  /\ IsNum(r.Gasto_Trafego) /\ r.Gasto_Trafego.m >= 0
                /\ IsNum(r.Total_Atendimentos) /\ r.Total_Atendimentos.e = 0
                /\ r.Total_Atendimentos.m >= 0
                /\ IsNum(r.Numero_Vendas) /\ r.Numero_Vendas.e = 0
                /\ r.Numero_Vendas.m >= 0
                /\ ParseNumber(row.c21).e = 0
                /\ ParseNumber(row.c23).e = 0

\* C8 (amended): every record returned has all three fields present (none
\* missing) and integer counts; the sign is not checked, so a negative value is
\* kept as it is, and a count that is not a whole number is not excluded but
\* truncated toward zero.
C8_RecordsPresentAndIntegral ==
    (Loaded /\ ~df.none) =>
        \A i \in 1..Len(df.rows) :
            LET r == df.rows[i]
                row == source.data[r.index + 1]
                c == ParseNumber(row.c21)
                v == ParseNumber(row.c23)
            IN  /\ IsNum(r.Gasto_Trafego)
                /\ IsNum(r.Total_Atendimentos) /\ r.Total_Atendimentos.e = 0
                /\ IsNum(r.Numero_Vendas) /\ r.Numero_Vendas.e = 0
                /\ TruncationOf(r.Total_Atendimentos, c)
                /\ TruncationOf(r.Numero_Vendas, v)

C8_Witness ==
    /\ Loaded /\ ~df.none /\ Len(df.rows) = 1
    /\ source.data[1].c23 = <<"-", "3", ".", "5">>
    /\ df.rows[1].Numero_Vendas = Dec(-3, 0)

(***************************************************************************)
(* C9                                                                      *)
(***************************************************************************)
Outcomes == {"error", "warning_empty", "info_no_file", "success"}

Analysis == {"success", "kpis", "correlation_info", "correlation_chart", "traffic_chart"}

\* C9: in one execution the outcomes exclude each other and come in order: a
\* load that returned no table shows the error and no KPI or chart follows; an
\* empty table gives the warning (not the 'no file' message) and no KPI or
\* chart; KPIs and charts come only after a load that returned a non-empty
\* table, KPIs first, then the correlation chart, then the traffic chart.
C9_OutcomesExclusiveOrdered ==
    /\ Cardinality({o \in Outcomes : Emitted(o)}) <= 1
    /\ (pc \in {"loaded", "end"} /\ source.present /\ df.none)
          => (Emitted("error") /\ ~kpis.computed /\ \A a \in Analysis : ~Emitted(a))
    /\ Emitted("error") => (df.none /\ ~kpis.computed /\ correlation.k = "none")
    /\ Emitted("warning_empty")
          => (~df.none /\ df.rows = <<>> /\ ~kpis.computed /\ correlation.k = "none"
              /\ ~Emitted("info_no_file") /\ \A a \in Analysis : ~Emitted(a))
    /\ (kpis.computed \/ \E a \in Analysis : Emitted(a))
          => (~df.none /\ df.rows # <<>> /\ kpis.computed /\ Emitted("kpis"))
    /\ Emitted("correlation_chart")
          => (Emitted("kpis") /\ Position("kpis") < Position("correlation_chart"))
    /\ Emitted("traffic_chart")
          => (Emitted("correlation_chart")
              /\ Position("correlation_chart") < Position("traffic_chart"))

C9_Witness ==
    /\ pc = "end" /\ ~df.none /\ df.rows = <<>> /\ Emitted("warning_empty")

(***************************************************************************)
(* C10                                                                     *)
(***************************************************************************)
\* C10: what a run of main hands to load_and_preprocess_data is the content of
\* the file uploaded for that run, whatever the test_mode flag.
C10_IngestsUploadedFile ==
    (pc \in {"loaded", "correlation", "traffic", "end"} /\ source.present)
        => source = uploaded_file

====
